---- MODULE Spec2Model ----
(***************************************************************************)
(* The in-memory knowledge base of src/app.py: the document store          *)
(* (knowledge_base), the query log (query_history) and the handlers        *)
(* upload_document, ask_question, list_documents and clear_cache, with the *)
(* helpers generate_doc_id, simple_embedding and calculate_similarity.     *)
(*                                                                         *)
(* Text.  A Python str is modelled as a record                             *)
(*     [segs |-> <<[ws |-> k, tok |-> <<c1, ..., cn>>], ...>>, trail |-> m] *)
(* each segment being k whitespace characters followed by a token of       *)
(* non-whitespace characters; trail counts the whitespace after the last   *)
(* token.  Every segment but the first has ws >= 1 and every token is      *)
(* non-empty.  len, strip, lower, split and slicing are operators on this  *)
(* representation.                                                         *)
(*                                                                         *)
(* Numbers.  An embedding entry x/1000.0 is the integer x (thousandths).   *)
(* A similarity dot/(sqrt(n1)*sqrt(n2)) is the record [dot, n1, n2] of the *)
(* three integer sums (in millionths); similarities are compared exactly,  *)
(* by cross-multiplication on multi-digit naturals.                        *)
(*                                                                         *)
(* Local variables of the source that are read more than once are operator *)
(* parameters here (TLC evaluates an argument once, a LET definition at    *)
(* every use): F(x) == G(x, e) stands for "y = e; ... y ... y ...".        *)
(***************************************************************************)
EXTENDS Integers, Sequences, FiniteSets, Bags, TLC

VARIABLES
    knowledge_base,   \* the list of stored documents
    query_history,    \* the list of query records
    request,          \* flask's request: the JSON body of the call being handled
    response,         \* what the last handler returned
    issued            \* history: every id generate_doc_id has given to a document

vars == <<knowledge_base, query_history, request, response, issued>>

(***************************************************************************)
(* Arithmetic on naturals beyond the machine word: little-endian sequences *)
(* of digits in base 10000.                                                *)
(***************************************************************************)
Max(a, b) == IF a >= b THEN a ELSE b

Min(a, b) == IF a <= b THEN a ELSE b

\* f[lo] + ... + f[hi] for naturals f[i]: the cardinality of the bag holding
\* f[i] + 1 copies of each i, less one copy of each.
SumRange(f, lo, hi) ==
    IF lo > hi THEN 0
    ELSE BagCardinality([i \in lo..hi |-> f[i] + 1]) - (hi - lo + 1)

RECURSIVE BigCarry(_, _)
\* Normalise a sequence of column sums into digits below 10000.
BigCarry(cols, carry) ==
    IF cols = <<>>
    THEN IF carry = 0 THEN <<>> ELSE <<carry % 10000>> \o BigCarry(<<>>, carry \div 10000)
    ELSE LET v == Head(cols) + carry
         IN  <<v % 10000>> \o BigCarry(Tail(cols), v \div 10000)

RECURSIVE BigTrim(_)
BigTrim(a) ==
    IF a # <<>> /\ a[Len(a)] = 0 THEN BigTrim(SubSeq(a, 1, Len(a) - 1)) ELSE a

BigOf(n) == BigTrim(BigCarry(<<>>, n))

BigMul(a, b) ==
    IF a = <<>> \/ b = <<>> THEN <<>>
    ELSE LET cols == [k \in 1..(Len(a) + Len(b) - 1) |->
                        SumRange([i \in 1..Len(a) |->
                                    IF k + 1 - i \in 1..Len(b) THEN a[i] * b[k + 1 - i] ELSE 0],
                                 1, Len(a))]
         IN  BigTrim(BigCarry(cols, 0))

RECURSIVE BigLessFrom(_, _, _)
BigLessFrom(a, b, i) ==
    IF i = 0 THEN FALSE
    ELSE IF a[i] # b[i] THEN a[i] < b[i]
    ELSE BigLessFrom(a, b, i - 1)

\* a < b, for trimmed a and b.
BigLess(a, b) ==
    IF Len(a) # Len(b) THEN Len(a) < Len(b) ELSE BigLessFrom(a, b, Len(a))

(***************************************************************************)
(* Python str operations on the text representation.                       *)
(***************************************************************************)
EmptyText == [segs |-> <<>>, trail |-> 0]

\* len(s)
StrLen(s) ==
    SumRange([i \in 1..Len(s.segs) |-> s.segs[i].ws + Len(s.segs[i].tok)], 1, Len(s.segs))
    + s.trail

\* s.strip()
Strip(s) ==
    IF s.segs = <<>> THEN EmptyText
    ELSE [segs |-> [s.segs EXCEPT ![1].ws = 0], trail |-> 0]

LowerChar(c) ==
    CASE c = "W" -> "w"
      [] c = "O" -> "o"
      [] c = "C" -> "c"
      [] c = "Y" -> "y"
      [] OTHER -> c

\* s.lower()
Lower(s) ==
    [segs |-> [i \in 1..Len(s.segs) |->
                 [ws |-> s.segs[i].ws,
                  tok |-> [j \in 1..Len(s.segs[i].tok) |-> LowerChar(s.segs[i].tok[j])]]],
     trail |-> s.trail]

\* s.split()
Split(s) == [i \in 1..Len(s.segs) |-> s.segs[i].tok]

\* Offset of the first character of segment i (its whitespace included).
SegStart(s, i) ==
    SumRange([j \in 1..Len(s.segs) |-> s.segs[j].ws + Len(s.segs[j].tok)], 1, i - 1)

RECURSIVE LastStartBelow(_, _, _, _)
\* The greatest i in lo..hi with SegStart(s, i) < n, or lo - 1 if there is none.
LastStartBelow(s, n, lo, hi) ==
    IF lo > hi THEN lo - 1
    ELSE LET mid == (lo + hi) \div 2
         IN  IF SegStart(s, mid) < n
             THEN LastStartBelow(s, n, mid + 1, hi)
             ELSE LastStartBelow(s, n, lo, mid - 1)

\* s[:n] when segment k is the last one starting below n > 0: room is what
\* is left of n at the start of segment k.
SliceAt(s, k, room) ==
    IF room <= s.segs[k].ws
    THEN [segs |-> SubSeq(s.segs, 1, k - 1), trail |-> room]
    ELSE IF room < s.segs[k].ws + Len(s.segs[k].tok)
    THEN [segs |-> SubSeq(s.segs, 1, k - 1)
                   \o <<[ws |-> s.segs[k].ws,
                         tok |-> SubSeq(s.segs[k].tok, 1, room - s.segs[k].ws)]>>,
          trail |-> 0]
    ELSE [segs |-> SubSeq(s.segs, 1, k),
          trail |-> room - s.segs[k].ws - Len(s.segs[k].tok)]

SliceFrom(s, n, k) == IF k = 0 THEN EmptyText ELSE SliceAt(s, k, n - SegStart(s, k))

\* s[:n]
Slice(s, n) ==
    IF n >= StrLen(s) THEN s ELSE SliceFrom(s, n, LastStartBelow(s, n, 1, Len(s.segs)))

\* words[:n] on a list
Take(list, n) == SubSeq(list, 1, Min(n, Len(list)))

\* set(list)
ToSet(list) == {list[i] : i \in 1..Len(list)}

(***************************************************************************)
(* Program constants.                                                      *)
(***************************************************************************)
Dimensions == 384

HashModulus == 10000

BucketModulus == 1000

MaxDocumentSize == 10000

MaxQueryLength == 500

MaxKeywords == 10

PreviewLength == 100

AnswerLength == 300

\* Confidence values in ten-thousandths (round(x, 4) has four decimals).
KeywordConfidence == 5000

\* A request without a body, and one whose body is the empty object.
NoBody == [body |-> FALSE, data |-> <<>>]

EmptyObject == [body |-> TRUE, data |-> <<>>]

\* dict.get(key, default)
Get(dict, key, default) == IF key \in DOMAIN dict THEN dict[key] ELSE default

\* "not data" for a request body: None (no body) or an empty dict.
NoData(req) == ~req.body \/ DOMAIN req.data = {}

(***************************************************************************)
(* hashlib.md5(word.encode()).hexdigest() read as an integer, modulo       *)
(* 10000: the digests of the words the inputs below can contain.           *)
(***************************************************************************)
Md5Mod10000(word) ==
    CASE word = <<"w", "y">> -> 1
      [] word = <<"o", "c">> -> 6009
      [] word = <<"e", "m", "c">> -> 3003
      [] word = <<"m", "e", "b">> -> 1003
      [] word = <<"o", "a">> -> 5000
      [] word = <<"z", "l">> -> 4000
      [] word = <<"g", "u", "t">> -> 2
      [] word = <<"t", "x", "t">> -> 6004
      [] word = <<"b", "a", "x">> -> 6
      [] word = <<"b", "o", "w">> -> 8
      [] word = <<"k", "o", "v">> -> 6
      [] word = <<"s", "i", "c">> -> 2004
      [] word = <<"t", "e", "h">> -> 4007
      [] word = <<"r", "p">> -> 1008
      [] word = <<"a", "g">> -> 9002
      [] word = <<"k", "c">> -> 6002
      [] word = <<"c", "a", "t">> -> 632
      [] word = <<"o", "a", "t">> -> 4029
      [] word = <<"W", "y">> -> 4221
      [] word = <<"O", "a">> -> 7968
      [] word = <<"O", "c">> -> 1730
      [] word = <<"C", "a", "t">> -> 3133

(***************************************************************************)
(* Helper functions.                                                       *)
(***************************************************************************)
\* Variant: the count itself once the store is non-empty, so the second document
\* is given the first one's id.
generate_doc_id_stuck(kb) == Max(1, Len(kb))

\* Variant: numbering from 0.
generate_doc_id_from_zero(kb) == Len(kb)

generate_doc_id(kb) == Len(kb) + 1

\* The loop over words: entry i is (hash_int % 1000) / 1000.0, in thousandths.
HashWords(words) ==
    [i \in 1..Len(words) |-> (Md5Mod10000(words[i]) % HashModulus) % BucketModulus]

\* "while len(embedding) < dimensions: embedding.append(0.0)", then [:dimensions]
PadWithZeros(embedding, dimensions) ==
    Take(embedding \o [i \in 1..Max(0, dimensions - Len(embedding)) |-> 0], dimensions)

\* Variant: neither words[:dimensions] nor embedding[:dimensions].
simple_embedding_untruncated(text, dimensions) ==
    HashWords(Split(Lower(text)))
    \o [i \in 1..Max(0, dimensions - Len(Split(Lower(text)))) |-> 0]

simple_embedding(text, dimensions) ==
    PadWithZeros(HashWords(Take(Split(Lower(text)), dimensions)), dimensions)

\* The similarity 0.0.
ZeroScore == [dot |-> 0, n1 |-> 1, n2 |-> 1]

\* The similarity threshold 0.1 = 1 / (sqrt(100) * sqrt(1)).
ThresholdScore == [dot |-> 1, n1 |-> 100, n2 |-> 1]

\* dot_product / (norm1 * norm2) as the record of the three sums.
Cosine(dot_product, norm1sq, norm2sq) ==
    IF norm1sq = 0 \/ norm2sq = 0 THEN ZeroScore
    ELSE [dot |-> dot_product, n1 |-> norm1sq, n2 |-> norm2sq]

calculate_similarity(vec1, vec2) ==
    IF vec1 = <<>> \/ vec2 = <<>> \/ Len(vec1) # Len(vec2) THEN ZeroScore
    ELSE Cosine(SumRange([i \in 1..Len(vec1) |-> vec1[i] * vec2[i]], 1, Len(vec1)),
                SumRange([i \in 1..Len(vec1) |-> vec1[i] * vec1[i]], 1, Len(vec1)),
                SumRange([i \in 1..Len(vec2) |-> vec2[i] * vec2[i]], 1, Len(vec2)))

\* dot^2 * n1 * n2 as a multi-digit natural.
BigProduct(dot, n1, n2) ==
    BigMul(BigMul(BigOf(dot), BigOf(dot)), BigMul(BigOf(n1), BigOf(n2)))

\* a > b for similarities: a.dot/sqrt(a.n1*a.n2) > b.dot/sqrt(b.n1*b.n2).
ScoreGT(a, b) ==
    BigLess(BigProduct(b.dot, a.n1, a.n2), BigProduct(a.dot, b.n1, b.n2))

\* a = b for similarities.
ScoreEQ(a, b) == ~ScoreGT(a, b) /\ ~ScoreGT(b, a)

\* k - 1/2 ten-thousandths is at most s: (2k - 1)^2 * n1 * n2 <= (20000 * dot)^2.
AtLeastHalfBelow(s, k) ==
    ~BigLess(BigMul(BigMul(BigOf(20000), BigOf(20000)), BigMul(BigOf(s.dot), BigOf(s.dot))),
             BigMul(BigMul(BigOf(2 * k - 1), BigOf(2 * k - 1)), BigMul(BigOf(s.n1), BigOf(s.n2))))

RECURSIVE RoundSearch(_, _, _)
\* The greatest k in lo..hi with AtLeastHalfBelow(s, k), which holds of lo.
RoundSearch(s, lo, hi) ==
    IF lo = hi THEN lo
    ELSE LET mid == (lo + hi + 1) \div 2
         IN  IF AtLeastHalfBelow(s, mid) THEN RoundSearch(s, mid, hi)
             ELSE RoundSearch(s, lo, mid - 1)

\* round(score, 4), in ten-thousandths.
Round4(s) == RoundSearch(s, 0, 10000)

(***************************************************************************)
(* Bounds of the model.                                                    *)
(***************************************************************************)
\* Uploads are accepted while the store holds fewer documents than this.
MaxDocs == 2

\* Valid questions are asked while the query log holds fewer records.
MaxHistory == 1

(***************************************************************************)
(* The handlers' responses.  The fixed wording of messages is abridged and *)
(* rendered in English; timestamps (datetime.now()) are left out: no       *)
(* handler reads one back.                                                 *)
(***************************************************************************)
Failed(op, message) ==
    [op |-> op, code |-> 400, status |-> "failed", error |-> message]

\* content[:n] followed by "..." when the flag is set.
Excerpt(text, n, ellipsis) == [text |-> Slice(text, n), ellipsis |-> ellipsis]

RECURSIVE Digits(_)
\* str(n) for n >= 0
Digits(n) ==
    LET d == <<"0", "1", "2", "3", "4", "5", "6", "7", "8", "9">>[(n % 10) + 1]
    IN  IF n < 10 THEN <<d>> ELSE Digits(n \div 10) \o <<d>>

\* f"Untitled_{doc_id}" (the source's literal is the Chinese for "untitled document")
DefaultTitle(doc_id) ==
    [segs |-> <<[ws |-> 0, tok |-> <<"U", "n", "t", "i", "t", "l", "e", "d", "_">> \o Digits(doc_id)]>>,
     trail |-> 0]

\* The document upload_document builds from the stripped content.
NewDocument(doc_id, data, content) ==
    [id        |-> doc_id,
     title     |-> Get(data, "title", DefaultTitle(doc_id)),
     content   |-> content,
     embedding |-> simple_embedding(content, Dimensions),
     length    |-> StrLen(content),
     keywords  |-> ToSet(Take(Split(Lower(content)), MaxKeywords))]

\* Variant: "len(content) >= 10000".
ContentErrorAtLimit(size) ==
    IF size = 0 THEN "document content must not be empty"
    ELSE IF size >= MaxDocumentSize THEN "document content too long"
    ELSE "none"

\* The checks of upload_document on the stripped content: its error, if any.
ContentError(size) ==
    IF size = 0 THEN "document content must not be empty"
    ELSE IF size > MaxDocumentSize THEN "document content too long"
    ELSE "none"

UploadError(req) ==
    IF NoData(req) THEN "request body is empty"
    ELSE ContentError(StrLen(Strip(Get(req.data, "content", EmptyText))))

\* "knowledge_base.append(document)" and the success response.
StoreDocument(document) ==
    /\ Len(knowledge_base) < MaxDocs
    /\ knowledge_base' = Append(knowledge_base, document)
    /\ issued' = issued \cup {document.id}
    /\ response' = [op |-> "upload", code |-> 200, status |-> "success",
                    document |-> [id |-> document.id, title |-> document.title,
                                  length |-> document.length],
                    statistics |-> [total_documents |-> Len(knowledge_base) + 1,
                                    content_length |-> document.length]]
    /\ UNCHANGED query_history

UploadOutcome(req, error) ==
    IF error # "none"
    THEN /\ response' = Failed("upload", error)
         /\ UNCHANGED <<knowledge_base, query_history, issued>>
    ELSE StoreDocument(NewDocument(generate_doc_id(knowledge_base), req.data,
                                   Strip(Get(req.data, "content", EmptyText))))

upload_document(req) ==
    /\ request' = req
    /\ UploadOutcome(req, UploadError(req))

\* Variant: "if similarity >= best_score", the last of equal scores wins.
BetterOrLater(best, i, similarity) ==
    IF ~ScoreGT(best.score, similarity) THEN [match |-> i, score |-> similarity] ELSE best

\* "if similarity > best_score: best_score = similarity; best_match = doc"
\* best is [match |-> index of best_match (0 for None), score |-> best_score].
Better(best, i, similarity) ==
    IF ScoreGT(similarity, best.score) THEN [match |-> i, score |-> similarity] ELSE best

RECURSIVE BestMatch(_, _, _, _)
\* The scan "for doc in knowledge_base" from document i on.
BestMatch(kb, question_embedding, i, best) ==
    IF i > Len(kb) THEN best
    ELSE BestMatch(kb, question_embedding, i + 1,
                   Better(best, i, calculate_similarity(question_embedding, kb[i].embedding)))

\* Variant: "if len(common_keywords) > 1".
MatchEntryOverOne(i, common_keywords) ==
    IF Cardinality(common_keywords) > 1
    THEN <<[doc |-> i, common_keywords |-> common_keywords,
            count |-> Cardinality(common_keywords)]>>
    ELSE <<>>

\* "if common_keywords: keyword_matches.append({...})" for document i.
MatchEntry(i, common_keywords) ==
    IF common_keywords # {}
    THEN <<[doc |-> i, common_keywords |-> common_keywords,
            count |-> Cardinality(common_keywords)]>>
    ELSE <<>>

RECURSIVE KeywordMatches(_, _, _)
\* keyword_matches: one entry per document, from document i on, whose keywords
\* share a word with the question's.
KeywordMatches(kb, question_keywords, i) ==
    IF i > Len(kb) THEN <<>>
    ELSE MatchEntry(i, question_keywords \cap kb[i].keywords)
         \o KeywordMatches(kb, question_keywords, i + 1)

\* Variant: an unstable sort, x put after the entries with a count equal to its own.
InsertByCountAfterEqual(x, sorted) ==
    SubSeq(sorted, 1, Cardinality({j \in 1..Len(sorted) : sorted[j].count >= x.count}))
    \o <<x>>
    \o SubSeq(sorted, Cardinality({j \in 1..Len(sorted) : sorted[j].count >= x.count}) + 1,
              Len(sorted))

\* x put into a list sorted by count, descending, before the first entry with
\* a count not above its own.
InsertByCount(x, sorted) ==
    SubSeq(sorted, 1, Cardinality({j \in 1..Len(sorted) : sorted[j].count > x.count}))
    \o <<x>>
    \o SubSeq(sorted, Cardinality({j \in 1..Len(sorted) : sorted[j].count > x.count}) + 1,
              Len(sorted))

RECURSIVE SortByCountDesc(_)
\* list.sort(key=count, reverse=True): stable, so of entries with equal counts
\* the one that came first stays first.
SortByCountDesc(list) ==
    IF list = <<>> THEN <<>>
    ELSE InsertByCount(Head(list), SortByCountDesc(Tail(list)))

SuccessAnswer(best_match, best_score) ==
    [op |-> "ask", code |-> 200, status |-> "success",
     answer |-> Excerpt(best_match.content, AnswerLength,
                        StrLen(best_match.content) > AnswerLength),
     source |-> [document_id |-> best_match.id,
                 title |-> best_match.title,
                 content_preview |-> Excerpt(best_match.content, PreviewLength, TRUE),
                 similarity_score |-> best_score],
     confidence |-> best_score,
     keywords |-> best_match.keywords]

\* The else branch of ask_question, given the sorted keyword_matches.
KeywordAnswer(kb, keyword_matches) ==
    IF keyword_matches # <<>>
    THEN [op |-> "ask", code |-> 200, status |-> "keyword_match",
          answer |-> Excerpt(kb[keyword_matches[1].doc].content, AnswerLength, TRUE),
          source |-> [document_id |-> kb[keyword_matches[1].doc].id,
                      title |-> kb[keyword_matches[1].doc].title,
                      matched_keywords |-> keyword_matches[1].common_keywords,
                      match_type |-> "keyword"],
          confidence |-> KeywordConfidence]
    ELSE [op |-> "ask", code |-> 200, status |-> "no_match", confidence |-> 0]

\* "if best_match and best_score > 0.1: ... else: ..."
AnswerFrom(kb, question, best) ==
    IF best.match # 0 /\ ScoreGT(best.score, ThresholdScore)
    THEN SuccessAnswer(kb[best.match], Round4(best.score))
    ELSE KeywordAnswer(kb, SortByCountDesc(
                               KeywordMatches(kb, ToSet(Split(Lower(question))), 1)))

\* The response ask_question computes for a valid (stripped, cut) question.
Answer(kb, question) ==
    IF kb = <<>>
    THEN [op |-> "ask", code |-> 200, status |-> "no_documents", confidence |-> 0]
    ELSE AnswerFrom(kb, question,
                    BestMatch(kb, simple_embedding(question, Dimensions), 1,
                              [match |-> 0, score |-> ZeroScore]))

\* Whether ask_question reaches the query log, and its error otherwise.
AskError(req) ==
    IF NoData(req) THEN "request body is empty"
    ELSE IF StrLen(Strip(Get(req.data, "question", EmptyText))) = 0
    THEN "question must not be empty"
    ELSE "none"

\* Variant: no cut.
CutNever(question) == question

\* "if len(question) > 500: question = question[:500]"
Cut(question) ==
    IF StrLen(question) > MaxQueryLength THEN Slice(question, MaxQueryLength) ELSE question

\* The question after strip() and the cut to 500 characters.
CutQuestion(req) == Cut(Strip(Get(req.data, "question", EmptyText)))

\* The query log entry and the answer for a valid question.
LogAndAnswer(question) ==
    /\ Len(query_history) < MaxHistory
    /\ query_history' = Append(query_history, [question |-> question,
                                                documents_count |-> Len(knowledge_base)])
    /\ response' = Answer(knowledge_base, question)
    /\ UNCHANGED <<knowledge_base, issued>>

ask_question(req) ==
    /\ request' = req
    /\ IF AskError(req) # "none"
       THEN /\ response' = Failed("ask", AskError(req))
            /\ UNCHANGED <<knowledge_base, query_history, issued>>
       ELSE LogAndAnswer(CutQuestion(req))

SummaryOf(doc, size) ==
    [id |-> doc.id,
     title |-> doc.title,
     content_preview |-> IF size > PreviewLength
                         THEN Excerpt(doc.content, PreviewLength, TRUE)
                         ELSE Excerpt(doc.content, size, FALSE),
     length |-> size]

DocumentSummary(doc) == SummaryOf(doc, StrLen(doc.content))

\* Variant: the documents listed last to first.
list_documents_reversed ==
    /\ request' = NoBody
    /\ response' = [op |-> "list", code |-> 200, status |-> "ok",
                    count |-> Len(knowledge_base),
                    documents |-> [i \in 1..Len(knowledge_base) |->
                                     DocumentSummary(knowledge_base[Len(knowledge_base) + 1 - i])]]
    /\ UNCHANGED <<knowledge_base, query_history, issued>>

list_documents ==
    /\ request' = NoBody
    /\ response' = [op |-> "list", code |-> 200, status |-> "ok",
                    count |-> Len(knowledge_base),
                    documents |-> [i \in 1..Len(knowledge_base) |->
                                     DocumentSummary(knowledge_base[i])]]
    /\ UNCHANGED <<knowledge_base, query_history, issued>>

\* Variant: the count taken after the store is emptied.
clear_cache_counting_late ==
    /\ request' = NoBody
    /\ knowledge_base' = <<>>
    /\ query_history' = <<>>
    /\ response' = [op |-> "clear", code |-> 200, status |-> "success",
                    cleared_count |-> 0]
    /\ UNCHANGED issued

clear_cache ==
    LET cleared_count == Len(knowledge_base)
    IN  /\ request' = NoBody
        /\ knowledge_base' = <<>>
        /\ query_history' = <<>>
        /\ response' = [op |-> "clear", code |-> 200, status |-> "success",
                        cleared_count |-> cleared_count]
        /\ UNCHANGED issued

(***************************************************************************)
(* Inputs.  Words are sequences of characters; a request is                *)
(* [body |-> whether there is a JSON body, data |-> the JSON object].      *)
(***************************************************************************)
Seg(ws, tok) == [ws |-> ws, tok |-> tok]

\* "Notes"
Notes == [segs |-> <<Seg(0, <<"N", "o", "t", "e", "s">>)>>, trail |-> 0]

\* Three whitespace characters.
Blank == [segs |-> <<>>, trail |-> 3]

\* " Oa<9996 spaces>Wy  ": 10000 characters once stripped.
ContentK ==
    [segs |-> <<Seg(1, <<"O", "a">>), Seg(MaxDocumentSize - 4, <<"W", "y">>)>>, trail |-> 2]

\* "Oa<9997 spaces>Wy": 10001 characters.
ContentTooLong ==
    [segs |-> <<Seg(0, <<"O", "a">>), Seg(MaxDocumentSize - 3, <<"W", "y">>)>>, trail |-> 0]

\* Word i of the long document: ten distinct words, an eleventh, filler up to
\* word 383, then two more: Dimensions + 1 words in all.
LongWord(i) ==
    IF i <= 10
    THEN << <<"z", "l">>, <<"g", "u", "t">>, <<"t", "x", "t">>, <<"b", "a", "x">>,
            <<"b", "o", "w">>, <<"k", "o", "v">>, <<"s", "i", "c">>, <<"t", "e", "h">>,
            <<"r", "p">>, <<"a", "g">> >>[i]
    ELSE IF i = 11 THEN <<"k", "c">>
    ELSE IF i < Dimensions THEN <<"z", "l">>
    ELSE IF i = Dimensions THEN <<"O", "c">>
    ELSE <<"c", "a", "t">>

ContentLong ==
    [segs |-> SubSeq([i \in 1..(Dimensions + 1) |-> Seg(IF i = 1 THEN 0 ELSE 1, LongWord(i))],
                     1, Dimensions + 1),
     trail |-> 0]

\* "  Wy oc emc meb ": embedding (0.001, 0.009, 0.003, 0.003, 0, ...), of norm 0.01.
ContentE ==
    [segs |-> <<Seg(2, <<"W", "y">>), Seg(1, <<"o", "c">>), Seg(1, <<"e", "m", "c">>),
                Seg(1, <<"m", "e", "b">>)>>,
     trail |-> 1]

\* "zl": embedding all zero.
ContentZ == [segs |-> <<Seg(0, <<"z", "l">>)>>, trail |-> 0]

UploadK == [body |-> TRUE, data |-> [title |-> Notes, content |-> ContentK]]

UploadLong == [body |-> TRUE, data |-> [content |-> ContentLong]]

UploadE == [body |-> TRUE, data |-> [content |-> ContentE]]

UploadZ == [body |-> TRUE, data |-> [title |-> Notes, content |-> ContentZ]]

UploadBlank == [body |-> TRUE, data |-> [title |-> Notes, content |-> Blank]]

UploadNoContent == [body |-> TRUE, data |-> [title |-> Notes]]

UploadTooLong == [body |-> TRUE, data |-> [content |-> ContentTooLong]]

\* "  Wy<496 spaces>oat": 501 characters once stripped, cut to "Wy<496 spaces>oa".
QuestionLong ==
    [segs |-> <<Seg(2, <<"W", "y">>), Seg(MaxQueryLength - 4, <<"o", "a", "t">>)>>, trail |-> 0]

\* "oa wy "
QuestionOaWy == [segs |-> <<Seg(0, <<"o", "a">>), Seg(1, <<"w", "y">>)>>, trail |-> 1]

\* "wy"
QuestionWy == [segs |-> <<Seg(0, <<"w", "y">>)>>, trail |-> 0]

\* "wy oa"
QuestionWyOa == [segs |-> <<Seg(0, <<"w", "y">>), Seg(1, <<"o", "a">>)>>, trail |-> 0]

\* " Cat"
QuestionCat == [segs |-> <<Seg(1, <<"C", "a", "t">>)>>, trail |-> 0]

\* "oc  wy"
QuestionOcWy == [segs |-> <<Seg(0, <<"o", "c">>), Seg(2, <<"w", "y">>)>>, trail |-> 0]

Ask(question) == [body |-> TRUE, data |-> [question |-> question]]

\* The requests of the two specifications, as sequences.
Uploads ==
    <<UploadK, UploadLong, NoBody, EmptyObject, UploadBlank, UploadNoContent, UploadTooLong>>

Questions == <<Ask(QuestionLong), Ask(QuestionOaWy), Ask(Blank), NoBody>>

RetrievalUploads == <<UploadE, UploadK, UploadZ>>

RetrievalQuestions ==
    <<Ask(QuestionWy), Ask(QuestionWyOa), Ask(QuestionCat), Ask(QuestionOcWy), Ask(Blank)>>

(***************************************************************************)
(* The service: the store and the log start empty; requests are handled    *)
(* one at a time.                                                          *)
(***************************************************************************)
NoResponse == [op |-> "none", code |-> 0, status |-> "none"]

Init ==
    /\ knowledge_base = <<>>
    /\ query_history = <<>>
    /\ request = NoBody
    /\ response = NoResponse
    /\ issued = {}

Next ==
    \/ \E i \in 1..Len(Uploads) : upload_document(Uploads[i])
    \/ \E i \in 1..Len(Questions) : ask_question(Questions[i])
    \/ list_documents
    \/ clear_cache

Spec == Init /\ [][Next]_vars

(***************************************************************************)
(* Retrieval: ask_question on every store that up to MaxDocs accepted      *)
(* uploads build.                                                          *)
(***************************************************************************)
\* kb with the document an accepted upload req adds.
WithUpload(kb, req) ==
    Append(kb, NewDocument(generate_doc_id(kb), req.data,
                           Strip(Get(req.data, "content", EmptyText))))

RECURSIVE StoreAfter(_)
\* The store after the accepted uploads reqs, in order, from the empty store.
StoreAfter(reqs) ==
    IF reqs = <<>> THEN <<>>
    ELSE WithUpload(StoreAfter(SubSeq(reqs, 1, Len(reqs) - 1)), reqs[Len(reqs)])

RetrievalInit ==
    /\ \E n \in 0..MaxDocs :
         \E pick \in [1..n -> 1..Len(RetrievalUploads)] :
            knowledge_base = StoreAfter([i \in 1..n |-> RetrievalUploads[pick[i]]])
    /\ query_history = <<>>
    /\ request = NoBody
    /\ response = NoResponse
    /\ issued = 1..Len(knowledge_base)

RetrievalNext == \E i \in 1..Len(RetrievalQuestions) : ask_question(RetrievalQuestions[i])

RetrievalSpec == RetrievalInit /\ [][RetrievalNext]_vars

(***************************************************************************)
(* Properties.  A step is recognised by the response it leaves: every      *)
(* handler sets response.op to its own name, and request to what it got.   *)
(***************************************************************************)

\* The document a step appended, when it appended one.
Added == knowledge_base'[Len(knowledge_base')]

Appends(old, new) == Len(new) = Len(old) + 1 /\ SubSeq(new, 1, Len(old)) = old

\* C1 as stated: an id given to a document is never given to a later one, even
\* when a clear happens in between.
IdNeverAssignedTwice ==
    [][Appends(knowledge_base, knowledge_base') => Added.id \notin issued]_vars

\* C1, amended: among the documents added since the most recent clear no id is
\* assigned twice (the stored documents have pairwise distinct ids and an add
\* never gives out an id a stored document holds); ids given before a clear
\* may be given again after it.
IdUniqueSinceClear ==
    /\ [](\A i, j \in 1..Len(knowledge_base) :
             i # j => knowledge_base[i].id # knowledge_base[j].id)
    /\ [][Appends(knowledge_base, knowledge_base')
            => \A i \in 1..Len(knowledge_base) : knowledge_base[i].id # Added.id]_vars

\* An upload has just been given id 1 although ids 1 and 2 were given before.
IdReusedAfterClear ==
    /\ response.op = "upload" /\ response.status = "success"
    /\ response.document.id = 1
    /\ Len(knowledge_base) = 1 /\ knowledge_base[1].id = 1
    /\ 2 \in issued

\* C2: the stored documents have the ids 1, 2, ..., n in insertion order
\* (positive, pairwise distinct), and each add assigns the document count
\* before the add plus one.
IdsAreOneToN ==
    /\ [](\A i \in 1..Len(knowledge_base) : knowledge_base[i].id = i)
    /\ [][Appends(knowledge_base, knowledge_base')
            => /\ Added.id = Len(knowledge_base) + 1
               /\ response'.document.id = Len(knowledge_base) + 1]_vars

\* A second document has just been stored with id 2.
SecondDocumentStored ==
    /\ response.op = "upload" /\ response.status = "success"
    /\ response.document.id = 2
    /\ Len(knowledge_base) = 2 /\ knowledge_base[2].id = 2

\* C3: clear reports the number of documents stored immediately before it and
\* leaves the store empty; an empty store lists zero documents and stays empty
\* until a successful add, which receives id 1.
ClearReportsAndRestarts ==
    [][/\ response'.op = "clear"
          => response'.cleared_count = Len(knowledge_base) /\ knowledge_base' = <<>>
       /\ (response'.op = "list" /\ knowledge_base = <<>>)
          => response'.count = 0 /\ response'.documents = <<>>
       /\ (knowledge_base = <<>> /\ knowledge_base' # <<>>)
          => /\ response'.op = "upload" /\ response'.status = "success"
             /\ Len(knowledge_base') = 1
             /\ knowledge_base'[1].id = 1 /\ response'.document.id = 1]_vars

\* A clear of a store of two documents has just reported 2.
ClearedTwo ==
    /\ response.op = "clear" /\ response.cleared_count = 2
    /\ knowledge_base = <<>>
    /\ issued = {1, 2}

\* The content of an upload request after trimming; absent content is empty.
Trimmed(req) == Strip(Get(req.data, "content", EmptyText))

\* C4: add fails exactly when the content is empty after trimming or its trimmed
\* length exceeds 10000; a rejected add leaves the store unchanged, an accepted
\* add appends exactly one document, holding the trimmed content, at the end.
AddValidation ==
    [][response'.op = "upload"
         => /\ response'.status = "failed"
               <=> (StrLen(Trimmed(request')) = 0 \/ StrLen(Trimmed(request')) > 10000)
            /\ response'.status = "failed" => knowledge_base' = knowledge_base
            /\ response'.status # "failed"
               => /\ Appends(knowledge_base, knowledge_base')
                  /\ Added.content = Trimmed(request')
                  /\ response'.statistics.total_documents = Len(knowledge_base')]_vars

\* Content of exactly 10000 characters after trimming has just been accepted.
AcceptedAtMaximum ==
    /\ response.op = "upload" /\ response.status = "success"
    /\ StrLen(Trimmed(request)) = 10000
    /\ StrLen(Get(request.data, "content", EmptyText)) > 10000
    /\ knowledge_base[Len(knowledge_base)].length = 10000

\* The question of the last request as ask_question uses it, and whether it is valid.
Asked == Slice(Strip(Get(request.data, "question", EmptyText)), MaxQueryLength)

ValidAsk ==
    response.op = "ask" /\ StrLen(Strip(Get(request.data, "question", EmptyText))) > 0

\* The similarity of the asked question and document i.
Sim(i) ==
    calculate_similarity(simple_embedding(Asked, Dimensions), knowledge_base[i].embedding)

AboveThreshold(i) == ScoreGT(Sim(i), ThresholdScore)

\* The earliest document no other document is more similar than.
MostSimilar ==
    CHOOSE i \in 1..Len(knowledge_base) :
        /\ \A j \in 1..Len(knowledge_base) : ~ScoreGT(Sim(j), Sim(i))
        /\ \A j \in 1..(i - 1) : ScoreGT(Sim(i), Sim(j))

\* The words the asked question and document i's keywords share.
Overlap(i) == ToSet(Split(Lower(Asked))) \cap knowledge_base[i].keywords

\* The earliest document no other document shares more words with the question than.
LargestOverlap ==
    CHOOSE i \in 1..Len(knowledge_base) :
        /\ \A j \in 1..Len(knowledge_base) : Cardinality(Overlap(j)) <= Cardinality(Overlap(i))
        /\ \A j \in 1..(i - 1) : Cardinality(Overlap(j)) < Cardinality(Overlap(i))

\* C5: for a valid question on a non-empty store the status is success exactly
\* when the largest similarity strictly exceeds 0.1; the document returned has
\* the largest similarity, the earliest-inserted of those that tie for it.
SuccessIffAboveThreshold ==
    (ValidAsk /\ knowledge_base # <<>>)
    => /\ response.status = "success"
          <=> \E i \in 1..Len(knowledge_base) : AboveThreshold(i)
       /\ response.status = "success"
          => /\ response.source.document_id = knowledge_base[MostSimilar].id
             /\ response.source.title = knowledge_base[MostSimilar].title
             /\ response.confidence = Round4(Sim(MostSimilar))

\* A question whose largest similarity is exactly 0.1 has not succeeded.
ExactlyThresholdNotSuccess ==
    /\ ValidAsk /\ knowledge_base # <<>>
    /\ ScoreEQ(Sim(MostSimilar), ThresholdScore)
    /\ response.status # "success"

\* C6: the keyword fallback answers only when no similarity exceeds 0.1; then,
\* if some document's keywords share a word with the question, the status is
\* keyword_match with confidence 0.5 and the source is the document with the
\* largest intersection, the earliest-inserted of those with that size; a
\* document with an empty intersection is never returned.
KeywordFallback ==
    (ValidAsk /\ knowledge_base # <<>>)
    => /\ response.status = "keyword_match"
          <=> /\ \A i \in 1..Len(knowledge_base) : ~AboveThreshold(i)
              /\ \E i \in 1..Len(knowledge_base) : Overlap(i) # {}
       /\ response.status = "keyword_match"
          => /\ response.confidence = 5000
             /\ response.source.document_id = knowledge_base[LargestOverlap].id
             /\ response.source.matched_keywords = Overlap(LargestOverlap)
             /\ Overlap(LargestOverlap) # {}

\* The fallback has returned the second document, which shares more words with
\* the question than the first, which shares some.
KeywordMatchOnLaterDocument ==
    /\ ValidAsk /\ Len(knowledge_base) >= 2
    /\ response.status = "keyword_match"
    /\ response.source.document_id = 2
    /\ Overlap(1) # {}
    /\ Cardinality(Overlap(2)) > Cardinality(Overlap(1))

\* C7: the status is no_match exactly for a valid question on a non-empty store
\* when no similarity exceeds 0.1 and no document's keywords share a word with
\* the question; the result is then a normal one with confidence 0.0 and no
\* source.
NoMatchIffNothingFound ==
    response.op = "ask"
    => /\ response.status = "no_match"
          <=> /\ ValidAsk /\ knowledge_base # <<>>
              /\ \A i \in 1..Len(knowledge_base) : ~AboveThreshold(i)
              /\ \A i \in 1..Len(knowledge_base) : Overlap(i) = {}
       /\ response.status = "no_match"
          => /\ response.code = 200
             /\ response.confidence = 0
             /\ "source" \notin DOMAIN response

\* no_match for a question that is similar, but not above 0.1, to a document.
NoMatchDespiteSimilarity ==
    /\ response.op = "ask" /\ response.status = "no_match"
    /\ \E i \in 1..Len(knowledge_base) : Sim(i).dot > 0

WordsOf(doc) == Split(Lower(doc.content))

\* What C9 says of one stored document, words being the lowercase words of its
\* content.
DocumentShape(doc, words) ==
    /\ Len(doc.embedding) = 384
    /\ \A k \in 1..384 :
          /\ doc.embedding[k] \in 0..999
          /\ k > Len(words) => doc.embedding[k] = 0
          /\ k <= Len(words) => doc.embedding[k] = Md5Mod10000(words[k]) % 1000
    /\ doc.keywords = {words[k] : k \in 1..Min(10, Len(words))}
    /\ doc.keywords # {}
    /\ Cardinality(doc.keywords) <= 10
    /\ \A w \in doc.keywords : \A k \in 1..Len(w) : w[k] = LowerChar(w[k])

\* C9: every stored document has an embedding of exactly 384 entries, each in
\* [0, 1) (0..999 thousandths): entry k is the hash bucket of the k-th word for
\* the first 384 words and 0.0 beyond the last word; its keywords are the first
\* 10 lowercase tokens of its content at most, so non-empty and at most 10.
EmbeddingAndKeywordsShape ==
    \A d \in 1..Len(knowledge_base) :
        DocumentShape(knowledge_base[d], WordsOf(knowledge_base[d]))

\* A document of more than 384 words is stored with ten keywords, next to one
\* of fewer words whose embedding is padded.
LongAndShortDocumentsStored ==
    /\ \E d \in 1..Len(knowledge_base) :
          /\ Len(WordsOf(knowledge_base[d])) > 384
          /\ Cardinality(knowledge_base[d].keywords) = 10
          /\ knowledge_base[d].embedding[384] # 0
    /\ \E d \in 1..Len(knowledge_base) :
          /\ Len(WordsOf(knowledge_base[d])) < 384
          /\ knowledge_base[d].embedding[384] = 0

\* C10: list and answer, whatever the question and the status, leave the stored
\* documents, their order and their ids unchanged; only add and clear change
\* the store; what list returns is the stored documents in order, so two lists
\* with no add or clear between them return the same.
OnlyAddAndClearChangeStore ==
    [][/\ response'.op \in {"list", "ask"} => knowledge_base' = knowledge_base
       /\ knowledge_base' # knowledge_base => response'.op \in {"upload", "clear"}
       /\ response'.op = "list"
          => /\ response'.count = Len(knowledge_base)
             /\ Len(response'.documents) = Len(knowledge_base)
             /\ \A i \in 1..Len(knowledge_base) :
                   /\ response'.documents[i].id = knowledge_base[i].id
                   /\ response'.documents[i].title = knowledge_base[i].title
                   /\ response'.documents[i].length = StrLen(knowledge_base[i].content)
                   /\ response'.documents[i].content_preview.text
                        = Slice(knowledge_base[i].content, 100)
       /\ (response.op = "list" /\ response'.op = "list") => response' = response]_vars

\* Two documents are listed after a question was answered on them.
ListedAfterAsk ==
    /\ response.op = "list" /\ response.count = 2
    /\ Len(knowledge_base) = 2
    /\ query_history # <<>>
    /\ query_history[Len(query_history)].documents_count = 2

====
